---- MODULE Spec2Model ----
(***************************************************************************)
(* Model of the SCANDALE aggregation agent (src/scandale/aggregation.py)   *)
(* and of the HTTP API in front of the database (src/api/main.py).         *)
(*                                                                         *)
(* Two processes share nothing but the database:                           *)
(*   - the agent's CollectingBehav, a SPADE CyclicBehaviour whose run()    *)
(*     is called again and again until the behaviour is killed;            *)
(*   - the API, whose handlers create and read Items and TimeStampTokens.  *)
(* main() starts the agent and waits for the user's interrupt (SpecMain).  *)
(*                                                                         *)
(* check_tst is a synchronous handler: the framework runs it in a worker   *)
(* thread, so the requests of other clients are served between its two     *)
(* lookups and its call of rt.check.  It is modelled as three steps; the   *)
(* model follows one check_tst request at a time.  create_item and         *)
(* create_tst make one call of the crud module each and are one step.      *)
(*                                                                         *)
(* Bytes and text are sequences of symbols (strings).  The crud module,    *)
(* the schemas and the database models are not part of the sources; the    *)
(* definitions named Crud* model them from the specification's Correlation *)
(* Store contract.  rfc3161ng and SPADE are libraries: RtTimestamp,        *)
(* RtCheckOutcomes and the killing of a behaviour whose run() raises model *)
(* their documented behaviour.                                             *)
(***************************************************************************)
EXTENDS Naturals, Sequences, FiniteSets

VARIABLES
    items,      \* table of Items (ScanRecords), in insertion order
    tsts,       \* table of TimeStampTokens, in insertion order
    resp,       \* the API's last response to check_tst / a failed create_tst
    chk,        \* the check_tst request being served: where it is, its locals
    pc,         \* CollectingBehav: "receive", "timestamping", "killed", or
                \* "loopClosed" once the event loop that drives it has ended
    msg,        \* body of the message of the current / last iteration of run()
    item,       \* the dict run() assembled in its last complete iteration
    event,      \* how the last iteration of run() ended
    tsaCalled,  \* whether the current / last iteration called RT.timestamp
    iter,       \* number of calls of run() so far, modulo IterWrap
    calls,      \* what the current / last check_tst has called, in order
    checksSinceWrite,   \* successive check_tst answers for resp.uuid since the
                        \* last creation of a row: 0, 1, or 2 for two and more
    rtRaises,   \* the installed rfc3161ng reports a mismatch by raising
    mainPc      \* main(): "waiting", "stopped", "AssertionError" or
                \* "KeyboardInterrupt"

vars == <<items, tsts, resp, chk, pc, msg, item, event, tsaCalled, iter,
          calls, checksSinceWrite, rtRaises, mainPc>>

\* Python's None, and a value that is not None
NoneVal == [isNone |-> TRUE]
Some(v) == [isNone |-> FALSE, value |-> v]

Missing == "Missing"

\* total number of rows the database holds in the model
MaxRows == 2

\* the calls of run() are counted modulo this
IterWrap == 2

UUIDs == {"u1", "u2"}
Rows == {"X", "Y"}

(***************************************************************************)
(* Data                                                                    *)
(***************************************************************************)

\* A scan document as a probe builds it; a field may be missing.
Docs == [uuid : UUIDs \cup {Missing}, row : Rows \cup {Missing}]

\* The documents the model's probes send: the well-formed ones, one without
\* a correlation identifier and one without a payload row.
SentDocs ==
    {d \in Docs : d.uuid # Missing /\ d.row # Missing}
        \cup {[uuid |-> Missing, row |-> "X"], [uuid |-> "u1", row |-> Missing]}

\* The required shape of a payload: a correlation identifier and a body.
ValidDoc(d) == d.uuid # Missing /\ d.row # Missing

\* The bytes of a whole document.
Serialise(d) ==
    <<"{">> \o (IF d.uuid = Missing THEN <<>> ELSE <<d.uuid>>)
            \o (IF d.row = Missing THEN <<>> ELSE <<d.row>>) \o <<"}">>

\* str.encode("utf-8") of one field of a document.
Utf8(s) == <<s>>

Symbols == {"{", "}"} \cup UUIDs \cup Rows

\* base64 text of one symbol
B64Sym(s) ==
    CASE s = "{" -> "ew" [] s = "}" -> "fQ" [] s = "u1" -> "dTE"
      [] s = "u2" -> "dTI" [] s = "X" -> "WA" [] s = "Y" -> "WQ"

B64Alphabet == {B64Sym(s) : s \in Symbols}

B64Encode(bs) == [i \in 1..Len(bs) |-> B64Sym(bs[i])]

\* whether base64.b64decode accepts the text (it raises binascii.Error otherwise)
B64Valid(text) == \A i \in 1..Len(text) : text[i] \in B64Alphabet

\* base64.b64decode of a text it accepts
B64Decode(text) ==
    [i \in 1..Len(text) |-> CHOOSE s \in Symbols : B64Sym(s) = text[i]]

\* a body whose padding is wrong
BadBody == <<"ew", "=">>

\* message bodies the transport can deliver
Bodies == {B64Encode(Serialise(d)) : d \in SentDocs} \cup {BadBody}

\* the document a decodable body carries
DocOf(body) == CHOOSE d \in Docs : Serialise(d) = B64Decode(body)

\* the message digest of some bytes (an ideal hash: no collisions)
Digest(bs) == <<"sha">> \o bs

\* RemoteTimestamper.timestamp(data=...), when the TSA grants: a token over
\* the digest of the data
RtTimestamp(data) == [imprint |-> Digest(data)]

\* RemoteTimestamper.check(tst, data=...): True when the token's imprint is the
\* digest of the data; otherwise the library reports the mismatch, by a false
\* result or by raising ValueError, depending on its version (the same one
\* throughout a run of the program)
RtCheckOutcomes(token, data) ==
    IF token.imprint = Digest(data) THEN {"True"}
    ELSE IF rtRaises THEN {"ValueError"} ELSE {"False"}

(***************************************************************************)
(* The database, as the crud module keeps it                               *)
(***************************************************************************)

\* what a probe's well-formed document is stored as: Item.scan_data
ScanData(d) == [scan_uuid |-> d.uuid, payload |-> [row |-> d.row]]

\* the bytes of a whole stored payload
StoredBytes(scan_data) ==
    Serialise([uuid |-> scan_data.scan_uuid, row |-> scan_data.payload.row])

\* crud.create_item: one more row, the others untouched
CrudCreateItem(table, scan_data) ==
    Append(table, [id |-> Len(table) + 1, scan_data |-> scan_data])

\* data[key] of a dict written with two keys (of a repeated key the later
\* value counts)
DictGet(data, key) ==
    IF data.keys[2] = key THEN data.vals[2] ELSE data.vals[1]

\* crud.create_tst: one more row, the others untouched
CrudCreateTst(table, data) ==
    Append(table, [tst |-> DictGet(data, "tst"),
                   scan_uuid |-> DictGet(data, "scan_uuid")])

\* crud.get_tst(db, scan_uuid=...): the first token of that scan, or None
CrudGetTst(table, scan_uuid) ==
    LET found == SelectSeq(table, LAMBDA t : t.scan_uuid = scan_uuid)
    IN  IF found = <<>> THEN NoneVal ELSE Some(found[1])

\* crud.get_items(db, scan_uuid=...): the items of that scan, or None
CrudGetItems(table, scan_uuid) ==
    LET found == SelectSeq(table, LAMBDA i : i.scan_data.scan_uuid = scan_uuid)
    IN  IF found = <<>> THEN NoneVal ELSE Some(found)

(***************************************************************************)
(* The API (src/api/main.py)                                               *)
(***************************************************************************)

NoResp == [op |-> "none", uuid |-> "", status |-> 0, detail |-> ""]

HttpException(op, uuid, code, detail) ==
    [op |-> op, uuid |-> uuid, status |-> code, detail |-> detail]

\* an exception no handler catches: the framework answers 500
ServerError(op, uuid) ==
    [op |-> op, uuid |-> uuid, status |-> 500, detail |-> "Internal Server Error"]

\* the bytes check_tst hands to rt.check for an item
CheckData(db_item) == Utf8(db_item.scan_data.payload.row)

\* lines 151-154 of check_tst: the response, given the token and the items
\* the lookups returned
RtCheckResponses(scan_uuid, db_tst, db_item) ==
    {IF result = "ValueError"
     THEN ServerError("check_tst", scan_uuid)
     ELSE [op |-> "check_tst", uuid |-> scan_uuid, status |-> 200,
           detail |-> result] :
     result \in RtCheckOutcomes(db_tst.tst, CheckData(db_item[1]))}

\* check_tst(scan_uuid) served with no other request in between: the responses
\* the handler can give in a database
CheckTstResponses(itemTable, tstTable, scan_uuid) ==
    LET db_tst == CrudGetTst(tstTable, scan_uuid)
        db_item == CrudGetItems(itemTable, scan_uuid)
    IN  IF db_tst = NoneVal
        THEN {HttpException("check_tst", scan_uuid, 404, "TimeStampToken not found")}
        ELSE IF db_item = NoneVal
        THEN {HttpException("check_tst", scan_uuid, 404, "Item not found")}
        ELSE RtCheckResponses(scan_uuid, db_tst.value, db_item.value)

\* the text of a request to create_tst, with its keys in either order, and
\* ast.literal_eval of it
TstRequestBody(token, scan_uuid) == <<"{", "tst", token, "scan_uuid", scan_uuid, "}">>
TstRequestBodySwapped(token, scan_uuid) ==
    <<"{", "scan_uuid", scan_uuid, "tst", token, "}">>
MalformedBody == <<"{", "tst">>
LiteralEvalOk(body) == Len(body) = 6 /\ body[1] = "{" /\ body[6] = "}"
LiteralEval(body) == [keys |-> <<body[2], body[4]>>, vals |-> <<body[3], body[5]>>]

\* the tokens a client can hold for a scan: the TSA's token over a whole
\* document of that scan, or over a row alone
ClientTokens(u) ==
    {RtTimestamp(Serialise([uuid |-> u, row |-> r])) : r \in Rows}
        \cup {RtTimestamp(Utf8(r)) : r \in Rows}

TstBodies ==
    UNION {{TstRequestBody(t, u) : t \in ClientTokens(u)} : u \in UUIDs}
        \cup UNION {{TstRequestBodySwapped(t, u) : t \in ClientTokens(u)} : u \in UUIDs}
        \cup {MalformedBody}

RowCount == Len(items) + Len(tsts)

\* a create_item that overwrites the Item of a scan that already has one
create_item_Upsert(d) ==
    /\ RowCount < MaxRows
    /\ items' = IF CrudGetItems(items, d.uuid) = NoneVal
                THEN CrudCreateItem(items, ScanData(d))
                ELSE [i \in 1..Len(items) |->
                        IF items[i].scan_data.scan_uuid = d.uuid
                        THEN [items[i] EXCEPT !.scan_data = ScanData(d)]
                        ELSE items[i]]
    /\ checksSinceWrite' = 0
    /\ UNCHANGED <<tsts, resp, chk, pc, msg, item, event, tsaCalled, iter,
                   calls, rtRaises, mainPc>>

\* POST /items/ (the database of the model holds MaxRows rows at most)
create_item(d) ==
    /\ RowCount < MaxRows
    /\ items' = CrudCreateItem(items, ScanData(d))
    /\ checksSinceWrite' = 0
    /\ UNCHANGED <<tsts, resp, chk, pc, msg, item, event, tsaCalled, iter,
                   calls, rtRaises, mainPc>>

\* POST /TimeStampTokens/: literal_eval raising leaves the handler before it
\* calls the store (the database of the model holds MaxRows rows at most)
create_tst(body) ==
    /\ IF LiteralEvalOk(body)
       THEN /\ RowCount < MaxRows
            /\ tsts' = CrudCreateTst(tsts, LiteralEval(body))
            /\ resp' = resp
            /\ checksSinceWrite' = 0
       ELSE /\ tsts' = tsts
            /\ resp' = ServerError("create_tst", "")
            /\ checksSinceWrite' = checksSinceWrite
    /\ UNCHANGED <<items, chk, pc, msg, item, event, tsaCalled, iter,
                   calls, rtRaises, mainPc>>

\* no check_tst request is being served
ChkIdle == [pc |-> "idle", uuid |-> "", db_tst |-> NoneVal, db_item |-> NoneVal]

\* the count of successive answers of check_tst for one scan, as this answer
\* leaves it
NextChecksSinceWrite(scan_uuid) ==
    IF checksSinceWrite >= 1 /\ resp.op = "check_tst" /\ resp.uuid = scan_uuid
    THEN 2 ELSE 1

\* a check_tst that looks the Item up first and the token second
check_tst_get_tst_ItemFirst(scan_uuid) ==
    /\ chk.pc = "idle"
    /\ LET db_tst == CrudGetTst(tsts, scan_uuid)
           db_item == CrudGetItems(items, scan_uuid)
       IN  IF db_item = NoneVal
           THEN /\ resp' = HttpException("check_tst", scan_uuid, 404, "Item not found")
                /\ calls' = <<"crud.get_items">>
                /\ chk' = ChkIdle
                /\ checksSinceWrite' = NextChecksSinceWrite(scan_uuid)
           ELSE IF db_tst = NoneVal
           THEN /\ resp' = HttpException("check_tst", scan_uuid, 404,
                                         "TimeStampToken not found")
                /\ calls' = <<"crud.get_items", "crud.get_tst">>
                /\ chk' = ChkIdle
                /\ checksSinceWrite' = NextChecksSinceWrite(scan_uuid)
           ELSE /\ chk' = [pc |-> "rt_check", uuid |-> scan_uuid,
                           db_tst |-> db_tst, db_item |-> db_item]
                /\ calls' = <<"crud.get_items", "crud.get_tst">>
                /\ UNCHANGED <<resp, checksSinceWrite>>
    /\ UNCHANGED <<items, tsts, pc, msg, item, event, tsaCalled, iter,
                   rtRaises, mainPc>>

\* GET /TimeStampTokens/check/{scan_uuid}, lines 141-143: the token is looked
\* up; without one the handler answers 404
check_tst_get_tst(scan_uuid) ==
    /\ chk.pc = "idle"
    /\ calls' = <<"crud.get_tst">>
    /\ LET db_tst == CrudGetTst(tsts, scan_uuid)
       IN  IF db_tst = NoneVal
           THEN /\ resp' = HttpException("check_tst", scan_uuid, 404,
                                         "TimeStampToken not found")
                /\ chk' = ChkIdle
                /\ checksSinceWrite' = NextChecksSinceWrite(scan_uuid)
           ELSE /\ chk' = [pc |-> "get_items", uuid |-> scan_uuid,
                           db_tst |-> db_tst, db_item |-> NoneVal]
                /\ UNCHANGED <<resp, checksSinceWrite>>
    /\ UNCHANGED <<items, tsts, pc, msg, item, event, tsaCalled, iter,
                   rtRaises, mainPc>>

\* check_tst without its test of db_item: indexing None raises TypeError when
\* the argument of rt.check is evaluated
check_tst_get_items_NoItemGuard ==
    /\ chk.pc = "get_items"
    /\ calls' = Append(calls, "crud.get_items")
    /\ LET db_item == CrudGetItems(items, chk.uuid)
       IN  IF db_item = NoneVal
           THEN /\ resp' = ServerError("check_tst", chk.uuid)
                /\ chk' = ChkIdle
                /\ checksSinceWrite' = NextChecksSinceWrite(chk.uuid)
           ELSE /\ chk' = [chk EXCEPT !.pc = "rt_check", !.db_item = db_item]
                /\ UNCHANGED <<resp, checksSinceWrite>>
    /\ UNCHANGED <<items, tsts, pc, msg, item, event, tsaCalled, iter,
                   rtRaises, mainPc>>

\* check_tst, lines 144-146: the Items of the scan are looked up, in the
\* database as it is by now; without one the handler answers 404
check_tst_get_items ==
    /\ chk.pc = "get_items"
    /\ calls' = Append(calls, "crud.get_items")
    /\ LET db_item == CrudGetItems(items, chk.uuid)
       IN  IF db_item = NoneVal
           THEN /\ resp' = HttpException("check_tst", chk.uuid, 404, "Item not found")
                /\ chk' = ChkIdle
                /\ checksSinceWrite' = NextChecksSinceWrite(chk.uuid)
           ELSE /\ chk' = [chk EXCEPT !.pc = "rt_check", !.db_item = db_item]
                /\ UNCHANGED <<resp, checksSinceWrite>>
    /\ UNCHANGED <<items, tsts, pc, msg, item, event, tsaCalled, iter,
                   rtRaises, mainPc>>

\* a check_tst that keeps a record of its checks: it stores the token it has
\* checked once more
check_tst_rt_check_Records ==
    /\ chk.pc = "rt_check"
    /\ calls' = Append(calls, "rt.check")
    /\ resp' \in RtCheckResponses(chk.uuid, chk.db_tst.value, chk.db_item.value)
    /\ chk' = ChkIdle
    /\ checksSinceWrite' = NextChecksSinceWrite(chk.uuid)
    /\ tsts' = Append(tsts, chk.db_tst.value)
    /\ UNCHANGED <<items, pc, msg, item, event, tsaCalled, iter, rtRaises, mainPc>>

\* a check_tst that uses a token up: the token it has checked is deleted
check_tst_rt_check_Consumes ==
    /\ chk.pc = "rt_check"
    /\ calls' = Append(calls, "rt.check")
    /\ resp' \in RtCheckResponses(chk.uuid, chk.db_tst.value, chk.db_item.value)
    /\ chk' = ChkIdle
    /\ checksSinceWrite' = NextChecksSinceWrite(chk.uuid)
    /\ tsts' = SelectSeq(tsts, LAMBDA t : t.scan_uuid # chk.uuid)
    /\ UNCHANGED <<items, pc, msg, item, event, tsaCalled, iter, rtRaises, mainPc>>

\* check_tst, lines 148-154: rt.check of the token against the row of the
\* first Item, both as the lookups returned them, and the answer
check_tst_rt_check ==
    /\ chk.pc = "rt_check"
    /\ calls' = Append(calls, "rt.check")
    /\ resp' \in RtCheckResponses(chk.uuid, chk.db_tst.value, chk.db_item.value)
    /\ chk' = ChkIdle
    /\ checksSinceWrite' = NextChecksSinceWrite(chk.uuid)
    /\ UNCHANGED <<items, tsts, pc, msg, item, event, tsaCalled, iter,
                   rtRaises, mainPc>>

(***************************************************************************)
(* CollectingBehav.run (src/scandale/aggregation.py)                       *)
(***************************************************************************)

\* an item that keeps the decoded body beside the token of the encoded one
MakeItem_Decoded(token, body) == [tst |-> token, scan_result |-> B64Decode(body)]

\* the dict run() builds from the token and the message
MakeItem(token, body) == [tst |-> token, scan_result |-> body]

\* what run() does to the database once the TSA has granted a token
RunStoreItems(table, token, body) == table
RunStoreTsts(table, token, body) == table

\* a run() that treats the absence of a message as an error
RunTimeout_Raises ==
    /\ pc = "receive"
    /\ msg' = NoneVal
    /\ item' = NoneVal
    /\ event' = "timeout"
    /\ tsaCalled' = FALSE
    /\ pc' = "killed"
    /\ iter' = (iter + 1) % IterWrap
    /\ UNCHANGED <<items, tsts, resp, chk, calls, checksSinceWrite, rtRaises, mainPc>>

\* receive(timeout=10) returns None: print and return
RunTimeout ==
    /\ pc = "receive"
    /\ msg' = NoneVal
    /\ item' = NoneVal
    /\ event' = "timeout"
    /\ tsaCalled' = FALSE
    /\ pc' = "receive"
    /\ iter' = (iter + 1) % IterWrap
    /\ UNCHANGED <<items, tsts, resp, chk, calls, checksSinceWrite, rtRaises, mainPc>>

\* a run() that is started again while a call to the TSA is pending, as a
\* second CollectingBehav added in setup() would do
RunReceive_Overlapping(body) ==
    /\ pc \in {"receive", "timestamping"}
    /\ msg' = Some(body)
    /\ item' = NoneVal
    /\ IF B64Valid(body)
       THEN /\ pc' = "timestamping"
            /\ tsaCalled' = TRUE
            /\ event' = "received"
       ELSE /\ pc' = "killed"
            /\ tsaCalled' = FALSE
            /\ event' = "binascii.Error"
    /\ iter' = (iter + 1) % IterWrap
    /\ UNCHANGED <<items, tsts, resp, chk, calls, checksSinceWrite, rtRaises, mainPc>>

\* receive returns a message; its body is decoded for printing, then the
\* blocking call to the TSA starts.  b64decode raising ends run() with the
\* exception, and SPADE kills a behaviour whose run() raises.
RunReceive(body) ==
    /\ pc = "receive"
    /\ msg' = Some(body)
    /\ item' = NoneVal
    /\ IF B64Valid(body)
       THEN /\ pc' = "timestamping"
            /\ tsaCalled' = TRUE
            /\ event' = "received"
       ELSE /\ pc' = "killed"
            /\ tsaCalled' = FALSE
            /\ event' = "binascii.Error"
    /\ iter' = (iter + 1) % IterWrap
    /\ UNCHANGED <<items, tsts, resp, chk, calls, checksSinceWrite, rtRaises, mainPc>>

\* RT.timestamp returns the token: the item is built and printed
RunTimestamped ==
    /\ pc = "timestamping"
    /\ LET token == RtTimestamp(msg.value)
       IN  /\ item' = Some(MakeItem(token, msg.value))
           /\ items' = RunStoreItems(items, token, msg.value)
           /\ tsts' = RunStoreTsts(tsts, token, msg.value)
    /\ event' = "processed"
    /\ pc' = "receive"
    /\ checksSinceWrite' = IF items' # items \/ tsts' # tsts THEN 0 ELSE checksSinceWrite
    /\ UNCHANGED <<resp, chk, msg, tsaCalled, iter, calls, rtRaises, mainPc>>

\* a run() that stores the scan before it has the token
RunTimestampFailed_KeepsRecord ==
    /\ pc = "timestamping"
    /\ event' = "TimestampingError"
    /\ pc' = "killed"
    /\ items' = IF B64Valid(msg.value) /\ ValidDoc(DocOf(msg.value)) /\ RowCount < MaxRows
                THEN CrudCreateItem(items, ScanData(DocOf(msg.value)))
                ELSE items
    /\ UNCHANGED <<tsts, resp, chk, msg, item, tsaCalled, iter,
                   calls, checksSinceWrite, rtRaises, mainPc>>

\* RT.timestamp raises (TSA unreachable, request rejected, response
\* malformed): run() has no handler, the exception leaves it
RunTimestampFailed ==
    /\ pc = "timestamping"
    /\ event' = "TimestampingError"
    /\ pc' = "killed"
    /\ UNCHANGED <<items, tsts, resp, chk, msg, item, tsaCalled, iter,
                   calls, checksSinceWrite, rtRaises, mainPc>>

(***************************************************************************)
(* main (src/scandale/aggregation.py)                                      *)
(***************************************************************************)

\* agent.CollectingBehav.exit_code == 10: the attribute is read from the
\* behaviour class, and nothing in the sources gives a behaviour that exit code
ExitCodeIsTen == FALSE

\* the behaviour once the event loop has ended: it is not resumed again
LoopClosed(p) == IF p = "killed" THEN "killed" ELSE "loopClosed"

\* Ctrl+C.  KeyboardInterrupt is raised where the thread of the event loop is
\* executing when the signal is handled:
\*  - inside run(), in the blocking RT.timestamp (line 40): the exception
\*    leaves run() and the loop, the message in flight is abandoned;
\*  - in the loop itself, waiting for the next timer: the exception leaves the
\*    loop without passing through main();
\*  - in main()'s try (lines 101-102): the wait loop is left, the assertion is
\*    evaluated and, if it holds, the agent is stopped (its behaviours are
\*    killed); if not, AssertionError leaves main() and ends the loop.
\* Once the loop has ended run() is not called or resumed again.
MainKeyboardInterrupt ==
    /\ mainPc = "waiting"
    /\ \/ /\ pc = "timestamping"
          /\ mainPc' = "KeyboardInterrupt"
          /\ event' = "KeyboardInterrupt"
          /\ pc' = "loopClosed"
       \/ /\ pc # "timestamping"
          /\ mainPc' = "KeyboardInterrupt"
          /\ event' = event
          /\ pc' = LoopClosed(pc)
       \/ /\ pc # "timestamping"
          /\ event' = event
          /\ IF ExitCodeIsTen
             THEN /\ mainPc' = "stopped"
                  /\ pc' = "killed"
             ELSE /\ mainPc' = "AssertionError"
                  /\ pc' = LoopClosed(pc)
    /\ UNCHANGED <<items, tsts, resp, chk, msg, item, tsaCalled, iter,
                   calls, checksSinceWrite, rtRaises>>

Init ==
    /\ items = <<>>
    /\ tsts = <<>>
    /\ resp = NoResp
    /\ chk = ChkIdle
    /\ pc = "receive"
    /\ msg = NoneVal
    /\ item = NoneVal
    /\ event = "start"
    /\ tsaCalled = FALSE
    /\ iter = 0
    /\ calls = <<>>
    /\ checksSinceWrite = 0
    /\ rtRaises \in BOOLEAN
    /\ mainPc = "waiting"

Next ==
    \/ \E d \in {x \in Docs : ValidDoc(x)} : create_item(d)
    \/ \E body \in TstBodies : create_tst(body)
    \/ \E u \in UUIDs : check_tst_get_tst(u)
    \/ check_tst_get_items
    \/ check_tst_rt_check
    \/ RunTimeout
    \/ \E body \in Bodies : RunReceive(body)
    \/ RunTimestamped
    \/ RunTimestampFailed

Spec == Init /\ [][Next]_vars

\* the agent and the API together with the user who interrupts main()
NextMain == Next \/ MainKeyboardInterrupt

SpecMain == Init /\ [][NextMain]_vars

(***************************************************************************)
(* Properties                                                              *)
(***************************************************************************)

\* a message body that the Payload Validator of the specification accepts
ValidBody(body) == B64Valid(body) /\ ValidDoc(DocOf(body))

\* the correlation identifier of a valid body
UuidOf(body) == DocOf(body).uuid

\* run() has just completed an iteration for a valid message
RunSucceeded ==
    pc = "receive" /\ event = "processed" /\ msg # NoneVal /\ ValidBody(msg.value)

ItemsOf(u) == SelectSeq(items, LAMBDA i : i.scan_data.scan_uuid = u)
TstsOf(u) == SelectSeq(tsts, LAMBDA t : t.scan_uuid = u)

\* C1: once run() has completed an iteration for a valid message whose
\* timestamp request succeeded, and before its next receive, the database
\* holds exactly one Item and exactly one TimeStampToken with the message's
\* correlation identifier.
C1_PersistedBeforeNextReceive ==
    RunSucceeded =>
        /\ Len(ItemsOf(UuidOf(msg.value))) = 1
        /\ Len(TstsOf(UuidOf(msg.value))) = 1

\* C2: once the processing of a message has finished, the database holds for
\* its correlation identifier either both an Item and a TimeStampToken or
\* neither.
C2_NoPartialWrites ==
    (pc # "timestamping" /\ msg # NoneVal /\ ValidBody(msg.value)) =>
        (ItemsOf(UuidOf(msg.value)) = <<>>) = (TstsOf(UuidOf(msg.value)) = <<>>)

\* C3: every step that adds a TimeStampToken for a correlation identifier
\* starts in a state where an Item with that identifier exists.
C3_RecordBeforeToken ==
    [][Len(tsts') > Len(tsts) =>
          CrudGetItems(items, tsts'[Len(tsts')].scan_uuid) # NoneVal]_vars

\* C4: right after run() has completed an iteration for a valid message,
\* check_tst of the message's correlation identifier answers that the token
\* is valid.
C4_VerifyTrueAfterRun ==
    RunSucceeded =>
        CheckTstResponses(items, tsts, UuidOf(msg.value)) =
            {[op |-> "check_tst", uuid |-> UuidOf(msg.value), status |-> 200,
              detail |-> "True"]}

\* C5: whenever check_tst has submitted data to the TSA check for a
\* correlation identifier, the bytes it submits are the bytes of the whole
\* payload the Item stores, not of one field of it.
C5_ByteIdentity ==
    (resp.op = "check_tst" /\ resp.status # 404) =>
        LET db_item == CrudGetItems(items, resp.uuid).value[1]
        IN  CheckData(db_item) = StoredBytes(db_item.scan_data)

\* C6: a failed timestamp request does not end the collecting behaviour: after
\* it the behaviour is not killed, it is waiting for the next message.
C6_TsaFailureContained ==
    event = "TimestampingError" => pc = "receive"

\* C7: no step of an iteration of run() whose timestamp request fails writes
\* to the database, neither the step that receives the message and calls the
\* TSA nor the step in which the call fails: the tables are as they were, and
\* a correlation identifier that had no Item or no TimeStampToken still has
\* none.
C7_TsaFailureNoWrites ==
    [][(\/ pc = "receive" /\ pc' = "timestamping"
        \/ pc = "timestamping" /\ event' = "TimestampingError") =>
          /\ items' = items
          /\ tsts' = tsts
          /\ \A u \in UUIDs :
                /\ CrudGetItems(items, u) = NoneVal => CrudGetItems(items', u) = NoneVal
                /\ CrudGetTst(tsts, u) = NoneVal => CrudGetTst(tsts', u) = NoneVal]_vars

C7_Witness ==
    /\ event = "TimestampingError"
    /\ ValidBody(msg.value)
    /\ CrudGetItems(items, UuidOf(msg.value)) = NoneVal
    /\ CrudGetTst(tsts, UuidOf(msg.value)) = NoneVal
    /\ items # <<>>

\* C8: a message that fails validation causes no request to the TSA and no
\* write, and the behaviour goes back to waiting for the next message.
C8_InvalidDropped ==
    [][(iter' # iter /\ msg' # NoneVal /\ ~ValidBody(msg'.value)) =>
          /\ items' = items
          /\ tsts' = tsts
          /\ tsaCalled' = FALSE
          /\ pc' = "receive"]_vars

\* C9: an iteration of run() whose receive times out leaves both tables
\* unchanged, calls the TSA not at all and ends with the behaviour waiting in
\* receive again.
C9_TimeoutNoEffect ==
    [][(iter' # iter /\ msg' = NoneVal) =>
          /\ items' = items
          /\ tsts' = tsts
          /\ tsaCalled' = FALSE
          /\ pc' = "receive"]_vars

C9_Witness ==
    /\ event = "timeout"
    /\ pc = "receive"
    /\ iter = 0
    /\ items # <<>>
    /\ tsts # <<>>

\* C10: check_tst answers 404 exactly when the TimeStampToken or the Item of
\* the correlation identifier is absent (as long as no row has been created
\* since the answer, the one or the other is still absent); a negative
\* verification is a 200 response and any other failure a 500, so neither is
\* mistaken for it; and the handler goes on to rt.check only with both present.
C10_NotFound ==
    /\ (resp.op = "check_tst" /\ checksSinceWrite >= 1) =>
          LET absent == \/ CrudGetTst(tsts, resp.uuid) = NoneVal
                        \/ CrudGetItems(items, resp.uuid) = NoneVal
          IN  /\ absent =>
                    /\ resp.status = 404
                    /\ resp.detail \in {"TimeStampToken not found", "Item not found"}
              /\ ~absent => resp.status \in {200, 500}
    /\ chk.pc = "rt_check" =>
          /\ CrudGetTst(tsts, chk.uuid) # NoneVal
          /\ CrudGetItems(items, chk.uuid) # NoneVal

C10_Witness ==
    /\ resp.op = "check_tst"
    /\ resp.status = 404
    /\ resp.detail = "Item not found"
    /\ checksSinceWrite >= 1
    /\ calls = <<"crud.get_tst", "crud.get_items">>
    /\ CrudGetTst(tsts, resp.uuid) # NoneVal
    /\ CrudGetItems(items, resp.uuid) = NoneVal

\* C11: when the Item and the TimeStampToken both exist, check_tst answers
\* with a normal result (200, message true or false); a token that does not
\* attest to the stored data gives message false, never an error response.
C11_MismatchIsNegativeResult ==
    (resp.op = "check_tst" /\ resp.status # 404) => resp.status = 200

\* C12: a check_tst of a correlation identifier that is answered after a
\* check_tst of the same identifier, with no row created since that answer,
\* gives the response the first one gave.
C12_IdempotentVerify ==
    [][(/\ resp.op = "check_tst"
        /\ checksSinceWrite >= 1
        /\ resp'.op = "check_tst"
        /\ resp'.uuid = resp.uuid
        /\ checksSinceWrite' = 2) => resp' = resp]_vars

C12_Witness ==
    /\ checksSinceWrite = 2
    /\ resp.op = "check_tst"
    /\ resp.status = 200
    /\ resp.detail = "False"

\* C13: once the stop signal has been taken, the message that was in flight
\* has not been abandoned, main() has left its wait loop and has stopped the
\* agent: the collecting behaviour is ended and receives no further message.
C13_StopCompletes ==
    mainPc # "waiting" =>
        /\ event # "KeyboardInterrupt"
        /\ mainPc = "stopped"
        /\ pc = "killed"

\* one table is the other with rows added at its end
IsPrefix(old, new) ==
    /\ Len(old) <= Len(new)
    /\ \A i \in 1..Len(old) : new[i] = old[i]

\* C14: every step keeps every Item and every TimeStampToken that exists, with
\* its content and in its place; rows are only ever added, also when a row of
\* the same correlation identifier exists.
C14_AppendOnly ==
    [][IsPrefix(items, items') /\ IsPrefix(tsts, tsts')]_vars

C14_Witness ==
    /\ Len(items) = 2
    /\ items[1].scan_data.scan_uuid = items[2].scan_data.scan_uuid
    /\ items[1].scan_data.payload.row # items[2].scan_data.payload.row

\* C15: run() is entered (a receive is issued and answered) only when no
\* message is in flight, and while a message is in flight it stays the
\* message of the iteration until the iteration ends.
C15_OneInFlight ==
    [][/\ iter' # iter => pc = "receive"
       /\ pc = "timestamping" => msg' = msg]_vars

C15_Witness ==
    /\ pc = "timestamping"
    /\ iter = 0
    /\ msg # NoneVal

\* C16: every step of a check_tst (a lookup, the call of rt.check, the
\* answer), whatever it answers and whatever the collecting behaviour is
\* doing, leaves the Items and the TimeStampTokens as they are.
C16_VerifierReadOnly ==
    [][(\/ chk' # chk
        \/ calls' # calls
        \/ resp' # resp /\ resp'.op = "check_tst"
        \/ checksSinceWrite' # checksSinceWrite /\ checksSinceWrite' >= 1) =>
          (items' = items /\ tsts' = tsts)]_vars

C16_Witness ==
    /\ chk.pc = "rt_check"
    /\ calls = <<"crud.get_tst", "crud.get_items">>
    /\ pc = "timestamping"
    /\ resp.op = "check_tst"
    /\ resp.status = 404
    /\ resp.uuid = chk.uuid

\* C17: the item run() assembles holds the body of the message of that same
\* iteration together with the token the TSA returned for exactly that body.
C17_ItemPairsTokenWithBody ==
    item # NoneVal =>
        /\ msg # NoneVal
        /\ item.value.scan_result = msg.value
        /\ item.value.tst = RtTimestamp(msg.value)

C17_Witness ==
    /\ item # NoneVal
    /\ event = "processed"
    /\ iter = 0

\* C18: check_tst looks the token up first and the Item second, and calls
\* rt.check only after both were found: a check that ends not-found has not
\* called it, and when both are absent the answer is the token-not-found one,
\* given after the token lookup alone.
C18_LookupsBeforeTsaCheck ==
    /\ chk.pc = "get_items" =>
          /\ calls = <<"crud.get_tst">>
          /\ chk.db_tst # NoneVal
    /\ chk.pc = "rt_check" =>
          /\ calls = <<"crud.get_tst", "crud.get_items">>
          /\ chk.db_tst # NoneVal
          /\ chk.db_item # NoneVal
    /\ (chk.pc = "idle" /\ resp.op = "check_tst") =>
          /\ Len(calls) \in 1..3
          /\ calls[1] = "crud.get_tst"
          /\ Len(calls) >= 2 => calls[2] = "crud.get_items"
          /\ \A i \in 1..Len(calls) : calls[i] = "rt.check" => i = 3
          /\ (resp.status = 404) = (Len(calls) < 3)
          /\ (resp.status = 404 /\ resp.detail = "TimeStampToken not found")
                = (Len(calls) = 1)
          /\ (/\ checksSinceWrite >= 1
              /\ CrudGetTst(tsts, resp.uuid) = NoneVal
              /\ CrudGetItems(items, resp.uuid) = NoneVal) =>
                /\ resp = HttpException("check_tst", resp.uuid, 404,
                                        "TimeStampToken not found")
                /\ calls = <<"crud.get_tst">>

C18_Witness ==
    /\ chk.pc = "idle"
    /\ resp.op = "check_tst"
    /\ resp.detail = "TimeStampToken not found"
    /\ calls = <<"crud.get_tst">>
    /\ checksSinceWrite >= 1
    /\ CrudGetTst(tsts, resp.uuid) = NoneVal
    /\ CrudGetItems(items, resp.uuid) = NoneVal
    /\ tsts # <<>>

====
